---- MODULE Spec2Model ----
(***************************************************************************)
(* Travel-Planner backend (src/backend/server.py): the FastAPI request     *)
(* handlers over the three MongoDB collections users, trips, itineraries,  *)
(* the JWT bearer check, and the generate-itinerary call to the external   *)
(* text generator with its two-stage JSON parse.                           *)
(*                                                                         *)
(* Each request handler is a coroutine.  Handlers whose await points can   *)
(* be crossed by another request with a visible effect are split at those  *)
(* points (register: find_one / insert_one; generate_itinerary: before and *)
(* after chat.send_message).  Users and trips are never updated or deleted *)
(* by any handler, so the other handlers are single steps.                 *)
(***************************************************************************)
EXTENDS Integers, Sequences, FiniteSets, TLC

VARIABLES now, users, trips, itineraries, issued, pc, last

vars == <<now, users, trips, itineraries, issued, pc, last>>

---------------------------------------------------------------------------
(* Bounds of the model *)

MaxUsers == 2
MaxTrips == 1
MaxItineraries == 2
MaxTokens == 1
MaxTicks == 2

(* Program constants *)

JWT_EXPIRATION_HOURS == 720
TO_LIST_LENGTH == 100

Procs == {"r1", "r2"}
Emails == {"a@x.com", "b@x.com"}
Names == {"Ann"}
Passwords == {"pw123456"}
WrongPasswords == {"other"}
TickSteps == {JWT_EXPIRATION_HOURS}
MaxNow == MaxTicks * JWT_EXPIRATION_HOURS

---------------------------------------------------------------------------
(* Text: a string is a sequence of one-character strings *)

\* the backtick character
BT == "BT"
Whitespace == {" ", "\n"}

RECURSIVE LStrip(_)
LStrip(s) == IF s # <<>> /\ Head(s) \in Whitespace THEN LStrip(Tail(s)) ELSE s

RECURSIVE RStrip(_)
RStrip(s) ==
    IF s # <<>> /\ s[Len(s)] \in Whitespace
    THEN RStrip(SubSeq(s, 1, Len(s) - 1))
    ELSE s

\* str.strip()
Strip(s) == RStrip(LStrip(s))

\* str.startswith(prefix)
StartsWith(s, prefix) ==
    /\ Len(s) >= Len(prefix)
    /\ SubSeq(s, 1, Len(prefix)) = prefix

\* str.endswith(suffix)
EndsWith(s, suffix) ==
    /\ Len(s) >= Len(suffix)
    /\ SubSeq(s, Len(s) - Len(suffix) + 1, Len(s)) = suffix

\* s[n:]
DropFirst(s, n) == SubSeq(s, n + 1, Len(s))

\* s[:-n]
DropLast(s, n) == SubSeq(s, 1, Len(s) - n)

---------------------------------------------------------------------------
(* json.loads on the alphabet of the model: numbers written with the digit *)
(* 1, strings without escapes, arrays and objects.  A parsed value is      *)
(* represented by its text without insignificant whitespace.               *)

QUOTE == "\""
Digits == {"1"}

ParseFail == [ok |-> FALSE, val |-> <<>>, rest |-> <<>>]

RECURSIVE ScanNumber(_, _)
ScanNumber(s, acc) ==
    IF s # <<>> /\ Head(s) \in Digits
    THEN ScanNumber(Tail(s), Append(acc, Head(s)))
    ELSE [ok |-> TRUE, val |-> acc, rest |-> s]

RECURSIVE ScanString(_, _)
ScanString(s, acc) ==
    IF s = <<>> THEN ParseFail
    ELSE IF Head(s) = QUOTE
         THEN [ok |-> TRUE, val |-> Append(acc, QUOTE), rest |-> Tail(s)]
         ELSE ScanString(Tail(s), Append(acc, Head(s)))

RECURSIVE ParseValue(_)
RECURSIVE ParseElems(_, _)
RECURSIVE ParseMembers(_, _)

\* JSONArray: s stands at the first character of an element
ParseElems(s, acc) ==
    LET v == ParseValue(s)
        t == LStrip(v.rest)
    IN  IF ~v.ok \/ t = <<>> THEN ParseFail
        ELSE IF Head(t) = ","
             THEN ParseElems(LStrip(Tail(t)), acc \o v.val \o <<",">>)
        ELSE IF Head(t) = "]"
             THEN [ok |-> TRUE, val |-> acc \o v.val \o <<"]">>, rest |-> Tail(t)]
        ELSE ParseFail

\* JSONObject: s stands at the opening quote of a key
ParseMembers(s, acc) ==
    IF s = <<>> \/ Head(s) # QUOTE THEN ParseFail
    ELSE
    LET k == ScanString(Tail(s), <<QUOTE>>)
        c == LStrip(k.rest)
    IN  IF ~k.ok \/ c = <<>> \/ Head(c) # ":" THEN ParseFail
        ELSE
        LET v == ParseValue(LStrip(Tail(c)))
            t == LStrip(v.rest)
        IN  IF ~v.ok \/ t = <<>> THEN ParseFail
            ELSE IF Head(t) = ","
                 THEN ParseMembers(LStrip(Tail(t)),
                                   acc \o k.val \o <<":">> \o v.val \o <<",">>)
            ELSE IF Head(t) = "}"
                 THEN [ok |-> TRUE,
                       val |-> acc \o k.val \o <<":">> \o v.val \o <<"}">>,
                       rest |-> Tail(t)]
            ELSE ParseFail

\* scan_once: s stands at the first character of a value
ParseValue(s) ==
    IF s = <<>> THEN ParseFail
    ELSE IF Head(s) \in Digits THEN ScanNumber(s, <<>>)
    ELSE IF Head(s) = QUOTE THEN ScanString(Tail(s), <<QUOTE>>)
    ELSE IF Head(s) = "["
         THEN LET t == LStrip(Tail(s))
              IN  IF t # <<>> /\ Head(t) = "]"
                  THEN [ok |-> TRUE, val |-> <<"[", "]">>, rest |-> Tail(t)]
                  ELSE ParseElems(t, <<"[">>)
    ELSE IF Head(s) = "{"
         THEN LET t == LStrip(Tail(s))
              IN  IF t # <<>> /\ Head(t) = "}"
                  THEN [ok |-> TRUE, val |-> <<"{", "}">>, rest |-> Tail(t)]
                  ELSE ParseMembers(t, <<"{">>)
    ELSE ParseFail

\* json.loads(s): one value, whitespace around it, nothing else
Loads(s) ==
    LET v == ParseValue(LStrip(s))
    IN  IF v.ok /\ LStrip(v.rest) = <<>>
        THEN [ok |-> TRUE, val |-> v.val]
        ELSE [ok |-> FALSE, val |-> <<>>]

Fence == <<BT, BT, BT>>
FenceJson == Fence \o <<"j", "s", "o", "n">>

\* a clean-up that knows the bare fence only
CleanResponse_BareFence(response) ==
    LET c0 == Strip(response)
        c2 == IF StartsWith(c0, Fence) THEN DropFirst(c0, 3) ELSE c0
        c3 == IF EndsWith(c2, Fence) THEN DropLast(c2, 3) ELSE c2
    IN  Strip(c3)

\* cleaned_response of the except branch, as handed to the second json.loads
CleanResponse(response) ==
    LET c0 == Strip(response)
        c1 == IF StartsWith(c0, FenceJson) THEN DropFirst(c0, 7) ELSE c0
        c2 == IF StartsWith(c1, Fence) THEN DropFirst(c1, 3) ELSE c1
        c3 == IF EndsWith(c2, Fence) THEN DropLast(c2, 3) ELSE c2
    IN  Strip(c3)

\* the try/except around json.loads(response); stage tells which
\* json.loads produced the outcome
ParseResponse(response) ==
    LET first == Loads(response)
        second == Loads(CleanResponse(response))
    IN  IF first.ok
        THEN [ok |-> TRUE, val |-> first.val, stage |-> 1]
        ELSE [ok |-> second.ok, val |-> second.val, stage |-> 2]

\* pydantic's check of Itinerary.itinerary_data: dict
IsDict(val) == val # <<>> /\ Head(val) = "{"

---------------------------------------------------------------------------
(* Credentials, tokens and password hashes *)

\* a request without an Authorization header
NoCred == [kind |-> "none", user_id |-> 0, email |-> "", exp |-> 0]

\* "Bearer <text that is no token signed with JWT_SECRET>"
Malformed == [kind |-> "malformed", user_id |-> 0, email |-> "", exp |-> 0]

NoUser == [id |-> 0, email |-> "", name |-> "", password_hash |-> <<>>]

hash_password(password) == <<"bcrypt", password>>

verify_password(plain_password, hashed_password) ==
    hashed_password = hash_password(plain_password)

\* the signed payload, issued at time t
create_jwt_token(user_data, t) ==
    [kind |-> "jwt", user_id |-> user_data.id, email |-> user_data.email,
     exp |-> t + JWT_EXPIRATION_HOURS]

AuthError(status, detail) ==
    [ok |-> FALSE, status |-> status, detail |-> detail, user |-> NoUser]

\* jwt.decode with the expiry check off
decode_jwt_token_NoExpiry(token, t) ==
    IF token.kind # "jwt" THEN {AuthError(401, "Invalid token")}
    ELSE {[ok |-> TRUE, status |-> 200, detail |-> "", user |-> NoUser]}

\* jwt.decode at time t: the outcomes, the token as payload.  At the very
\* instant t = exp the answer is the library's (exp < now in PyJWT before
\* 2.6, exp <= now since).
decode_jwt_token(token, t) ==
    IF token.kind # "jwt" THEN {AuthError(401, "Invalid token")}
    ELSE IF token.exp < t THEN {AuthError(401, "Token has expired")}
    ELSE IF token.exp = t
         THEN {AuthError(401, "Token has expired"),
               [ok |-> TRUE, status |-> 200, detail |-> "", user |-> NoUser]}
    ELSE {[ok |-> TRUE, status |-> 200, detail |-> "", user |-> NoUser]}

\* HTTPBearer() with auto_error: no credentials.  The status is FastAPI's:
\* 403 before 0.122, 401 since.
HTTPBearerMissing ==
    {AuthError(401, "Not authenticated"), AuthError(403, "Not authenticated")}

Range(seq) == {seq[i] : i \in DOMAIN seq}

\* Depends(get_current_user): the possible outcomes for the credentials of
\* a request handled at time t
get_current_user(cred, t) ==
    IF cred.kind = "none" THEN HTTPBearerMissing
    ELSE UNION {
        IF ~d.ok THEN {d}
        ELSE LET found == {u \in Range(users) : u.id = cred.user_id}
             IN  IF found = {} THEN {AuthError(401, "User not found")}
                 ELSE {[ok |-> TRUE, status |-> 200, detail |-> "", user |-> u] :
                          u \in found}
        : d \in decode_jwt_token(cred, t)}

\* the credentials a client can present
Creds == {NoCred, Malformed} \cup issued

\* the clients keep the token of a response; they hold up to MaxTokens
\* tokens and drop the earlier ones for a new one
Keep(token) ==
    IF Cardinality(issued \cup {token}) <= MaxTokens
    THEN issued \cup {token}
    ELSE {token}

---------------------------------------------------------------------------
(* Responses *)

NoParse == [ok |-> FALSE, val |-> <<>>, stage |-> 0]
NoLlm == [called |-> FALSE, raised |-> FALSE, text |-> <<>>]

\* The response of the request completed last.  seq alternates, so that
\* every response changes it.
Response(op, cred, status, detail) ==
    [seq |-> 1 - last.seq, op |-> op, cred |-> cred, status |-> status,
     detail |-> detail, email |-> "", trip_id |-> 0, token |-> NoCred,
     body |-> <<>>, llm |-> NoLlm, parsed |-> NoParse]

PublicUser(u) == [id |-> u.id, email |-> u.email, name |-> u.name]

Idle == [at |-> "idle", cred |-> NoCred, user_id |-> 0, trip_id |-> 0,
         email |-> "", name |-> "", password_hash |-> <<>>]

Pending(at) == {p \in Procs : pc[p].at = at}

Init ==
    /\ now = 0
    /\ users = <<>>
    /\ trips = <<>>
    /\ itineraries = <<>>
    /\ issued = {}
    /\ pc = [p \in Procs |-> Idle]
    /\ last = [seq |-> 0, op |-> "none", cred |-> NoCred, status |-> 0,
               detail |-> "", email |-> "", trip_id |-> 0, token |-> NoCred,
               body |-> <<>>, llm |-> NoLlm, parsed |-> NoParse]

---------------------------------------------------------------------------
(* POST /auth/register *)

\* a lookup on the wrong field
UsersByEmail_ByName(email) == {u \in Range(users) : u.name = email}

\* db.users.find_one({'email': email})
UsersByEmail(email) == {u \in Range(users) : u.email = email}

\* up to the await of db.users.insert_one
RegisterFind(p, email, name, password) ==
    /\ pc[p].at = "idle"
    /\ Len(users) + Cardinality(Pending("register_insert")) < MaxUsers
    /\ IF UsersByEmail(email) # {}
       THEN /\ last' = [Response("register", NoCred, 400, "Email already registered")
                          EXCEPT !.email = email]
            /\ UNCHANGED pc
       ELSE /\ pc' = [pc EXCEPT ![p] =
                        [Idle EXCEPT !.at = "register_insert", !.email = email,
                                     !.name = name,
                                     !.password_hash = hash_password(password)]]
            /\ UNCHANGED last
    /\ UNCHANGED <<now, users, trips, itineraries, issued>>

\* db.users.insert_one(user_dict) and the rest of the handler
RegisterInsert(p) ==
    /\ pc[p].at = "register_insert"
    /\ LET user_obj == [id |-> Len(users) + 1, email |-> pc[p].email,
                        name |-> pc[p].name,
                        password_hash |-> pc[p].password_hash]
           token == create_jwt_token(user_obj, now)
       IN  /\ users' = Append(users, user_obj)
           /\ issued' = Keep(token)
           /\ last' = [Response("register", NoCred, 200, "")
                         EXCEPT !.email = user_obj.email, !.token = token,
                                !.body = <<PublicUser(user_obj)>>]
    /\ pc' = [pc EXCEPT ![p] = Idle]
    /\ UNCHANGED <<now, trips, itineraries>>

---------------------------------------------------------------------------
(* POST /auth/login *)

\* a login that tells an unknown email apart
LoginNoUser_404(email) ==
    [Response("login", NoCred, 404, "User not found") EXCEPT !.email = email]

\* if not user: raise
LoginNoUser(email) ==
    [Response("login", NoCred, 401, "Invalid email or password")
       EXCEPT !.email = email]

\* if not verify_password(...): raise
LoginBadPassword(email) ==
    [Response("login", NoCred, 401, "Invalid email or password")
       EXCEPT !.email = email]

Login(email, password) ==
    /\ IF UsersByEmail(email) = {}
       THEN /\ last' = LoginNoUser(email)
            /\ UNCHANGED issued
       ELSE \E user \in UsersByEmail(email) :
              IF ~verify_password(password, user.password_hash)
              THEN /\ last' = LoginBadPassword(email)
                   /\ UNCHANGED issued
              ELSE LET token == create_jwt_token(user, now)
                   IN  /\ issued' = Keep(token)
                       /\ last' = [Response("login", NoCred, 200, "")
                                     EXCEPT !.email = email, !.token = token,
                                            !.body = <<PublicUser(user)>>]
    /\ UNCHANGED <<now, users, trips, itineraries, pc>>

---------------------------------------------------------------------------
(* The bearer-protected routes *)

\* GET /auth/me
GetMe(cred) ==
    /\ \E a \in get_current_user(cred, now) :
         IF ~a.ok
         THEN last' = Response("me", cred, a.status, a.detail)
         ELSE last' = [Response("me", cred, 200, "")
                         EXCEPT !.body = <<PublicUser(a.user)>>]
    /\ UNCHANGED <<now, users, trips, itineraries, issued, pc>>

\* the Literal types of TripCriteriaCreate
TripTypes == {"friends", "family", "solo", "couple"}
TripVibes == {"relaxing", "adventurous", "party", "cultural", "nature", "mix"}
HecticLevels == {"very_relaxed", "moderately_relaxed", "moderate",
                 "medium_to_high", "very_hectic"}
PlacesPreferences == {"mainstream", "hidden_gems", "balanced"}

\* a JSON value for number_of_days: an integer, or something that is none
IntValue(n) == [int |-> TRUE, value |-> n]
NotAnInt == [int |-> FALSE, value |-> 0]

\* a request body of POST /trips (the fields typed str are left out)
TripBody == [number_of_days |-> IntValue(3), trip_type |-> "couple",
             trip_vibe |-> "mix", hectic_level |-> "moderate",
             places_preference |-> "balanced"]

\* the request bodies of the model
TripInputs ==
    {TripBody,
     [TripBody EXCEPT !.number_of_days = IntValue(0)],
     [TripBody EXCEPT !.number_of_days = NotAnInt],
     [TripBody EXCEPT !.trip_type = "business"],
     [TripBody EXCEPT !.trip_vibe = "chill"],
     [TripBody EXCEPT !.hectic_level = "extreme"],
     [TripBody EXCEPT !.places_preference = "none"]}

\* pydantic's validation of the body as TripCriteriaCreate
ValidTripCriteriaCreate(trip_data) ==
    /\ trip_data.number_of_days.int
    /\ trip_data.trip_type \in TripTypes
    /\ trip_data.trip_vibe \in TripVibes
    /\ trip_data.hectic_level \in HecticLevels
    /\ trip_data.places_preference \in PlacesPreferences

\* POST /trips
CreateTrip(cred, trip_data) ==
    /\ Len(trips) < MaxTrips
    /\ \E a \in get_current_user(cred, now) :
         IF ~a.ok
         THEN /\ last' = Response("create_trip", cred, a.status, a.detail)
              /\ UNCHANGED trips
         ELSE IF ~ValidTripCriteriaCreate(trip_data)
         THEN /\ last' = Response("create_trip", cred, 422, "validation error")
              /\ UNCHANGED trips
         ELSE LET trip_obj == [id |-> Len(trips) + 1, user_id |-> a.user.id,
                               number_of_days |-> trip_data.number_of_days.value,
                               trip_type |-> trip_data.trip_type,
                               trip_vibe |-> trip_data.trip_vibe,
                               hectic_level |-> trip_data.hectic_level,
                               places_preference |-> trip_data.places_preference]
              IN  /\ trips' = Append(trips, trip_obj)
                  /\ last' = [Response("create_trip", cred, 200, "")
                                EXCEPT !.trip_id = trip_obj.id,
                                       !.body = <<trip_obj>>]
    /\ UNCHANGED <<now, users, itineraries, issued, pc>>

\* cursor.to_list(length)
ToList(seq, length) ==
    IF Len(seq) <= length THEN seq ELSE SubSeq(seq, 1, length)

\* db.trips.find({'user_id': user_id})
TripsOf(user_id) ==
    LET Mine(t) == t.user_id = user_id
    IN  SelectSeq(trips, Mine)

\* GET /trips
GetTrips(cred) ==
    /\ \E a \in get_current_user(cred, now) :
         IF ~a.ok
         THEN last' = Response("get_trips", cred, a.status, a.detail)
         ELSE last' = [Response("get_trips", cred, 200, "")
                         EXCEPT !.body = ToList(TripsOf(a.user.id), TO_LIST_LENGTH)]
    /\ UNCHANGED <<now, users, trips, itineraries, issued, pc>>

\* a trip lookup by id alone
OwnedTrips_AnyOwner(trip_id, user_id) ==
    {t \in Range(trips) : t.id = trip_id}

\* db.trips.find_one({'id': trip_id, 'user_id': user_id})
OwnedTrips(trip_id, user_id) ==
    {t \in Range(trips) : t.id = trip_id /\ t.user_id = user_id}

\* an itinerary lookup by trip id alone
ItinerariesFor_AnyUser(trip_id, user_id) ==
    {it \in Range(itineraries) : it.trip_id = trip_id}

\* db.itineraries.find_one({'trip_id': trip_id, 'user_id': user_id}): the
\* documents it can return (no sort is given)
ItinerariesFor(trip_id, user_id) ==
    {it \in Range(itineraries) : it.trip_id = trip_id /\ it.user_id = user_id}

\* GET /trips/{trip_id}/itinerary
GetItinerary(cred, trip_id) ==
    /\ \E a \in get_current_user(cred, now) :
         IF ~a.ok
         THEN last' = [Response("get_itinerary", cred, a.status, a.detail)
                         EXCEPT !.trip_id = trip_id]
         ELSE IF ItinerariesFor(trip_id, a.user.id) = {}
         THEN last' = [Response("get_itinerary", cred, 404, "Itinerary not found")
                         EXCEPT !.trip_id = trip_id]
         ELSE \E itinerary \in ItinerariesFor(trip_id, a.user.id) :
                last' = [Response("get_itinerary", cred, 200, "")
                           EXCEPT !.trip_id = trip_id, !.body = <<itinerary>>]
    /\ UNCHANGED <<now, users, trips, itineraries, issued, pc>>

---------------------------------------------------------------------------
(* POST /trips/{trip_id}/generate-itinerary *)

\* { "d":[1]}
DocDays == <<"{", " ", QUOTE, "d", QUOTE, ":", "[", "1", "]", "}">>
\* [1]
DocList == <<"[", "1", "]">>

\* a document in a fenced code block: leading text, opening fence with a
\* language tag, the document, closing fence
Fenced(lead, tag, sep, d) ==
    lead \o Fence \o tag \o sep \o d \o <<"\n">> \o Fence

TagJson == <<"j", "s", "o", "n">>

\* what chat.send_message can return
Responses ==
    {DocDays, DocList, Fenced(<<>>, TagJson, <<"\n">>, DocDays), <<"n", "o">>}

\* chat.send_message raises, or returns a text
LlmOutcomes ==
    {[called |-> TRUE, raised |-> TRUE, text |-> <<>>]}
    \cup {[called |-> TRUE, raised |-> FALSE, text |-> r] : r \in Responses}

\* the handler up to the await of chat.send_message
GenerateStart(p, cred, trip_id) ==
    /\ pc[p].at = "idle"
    /\ Len(itineraries) + Cardinality(Pending("generate_llm")) < MaxItineraries
    /\ \E a \in get_current_user(cred, now) :
         IF ~a.ok
         THEN /\ last' = [Response("generate", cred, a.status, a.detail)
                            EXCEPT !.trip_id = trip_id]
              /\ UNCHANGED pc
         ELSE IF OwnedTrips(trip_id, a.user.id) = {}
         THEN /\ last' = [Response("generate", cred, 404, "Trip not found")
                            EXCEPT !.trip_id = trip_id]
              /\ UNCHANGED pc
         ELSE /\ pc' = [pc EXCEPT ![p] =
                          [Idle EXCEPT !.at = "generate_llm", !.cred = cred,
                                       !.user_id = a.user.id,
                                       !.trip_id = trip_id]]
              /\ UNCHANGED last
    /\ UNCHANGED <<now, users, trips, itineraries, issued>>

\* lines 267-285: the itinerary_data of the try block, ok when no
\* statement of it raised
Generated(outcome) ==
    IF outcome.raised THEN NoParse
    ELSE LET parsed == ParseResponse(outcome.text)
         IN  [parsed EXCEPT !.ok = parsed.ok /\ IsDict(parsed.val)]

\* an insert placed before the validation of the parsed data
InsertItinerary_Unchecked(p, result) ==
    IF result.stage # 0
    THEN Append(itineraries,
                [id |-> Len(itineraries) + 1, trip_id |-> pc[p].trip_id,
                 user_id |-> pc[p].user_id, itinerary_data |-> result.val])
    ELSE itineraries

\* the itineraries collection after the try block
InsertItinerary(p, result) ==
    IF result.ok
    THEN Append(itineraries,
                [id |-> Len(itineraries) + 1, trip_id |-> pc[p].trip_id,
                 user_id |-> pc[p].user_id, itinerary_data |-> result.val])
    ELSE itineraries

\* chat.send_message returns or raises; the rest of the handler
GenerateFinish(p, outcome) ==
    /\ pc[p].at = "generate_llm"
    /\ LET result == Generated(outcome)
       IN  /\ itineraries' = InsertItinerary(p, result)
           /\ last' = [Response("generate", pc[p].cred,
                                IF result.ok THEN 200 ELSE 500,
                                IF result.ok THEN ""
                                ELSE "Failed to generate itinerary")
                         EXCEPT !.trip_id = pc[p].trip_id,
                                !.llm = outcome,
                                !.parsed = IF outcome.raised THEN NoParse
                                           ELSE ParseResponse(outcome.text),
                                !.body = IF result.ok
                                         THEN <<itineraries'[Len(itineraries')]>>
                                         ELSE <<>>]
    /\ pc' = [pc EXCEPT ![p] = Idle]
    /\ UNCHANGED <<now, users, trips, issued>>

---------------------------------------------------------------------------

\* time passes
Tick(d) ==
    /\ now + d <= MaxNow
    /\ now' = now + d
    /\ UNCHANGED <<users, trips, itineraries, issued, pc, last>>

\* the steps of the server that are no return of chat.send_message
ServerStep ==
    \/ \E p \in Procs, email \in Emails, name \in Names, password \in Passwords :
         RegisterFind(p, email, name, password)
    \/ \E p \in Procs : RegisterInsert(p)
    \/ \E email \in Emails, password \in Passwords \cup WrongPasswords :
         Login(email, password)
    \/ \E cred \in Creds : GetMe(cred)
    \/ \E cred \in Creds, trip_data \in TripInputs :
         CreateTrip(cred, trip_data)
    \/ \E cred \in Creds : GetTrips(cred)
    \/ \E p \in Procs, cred \in Creds, trip_id \in 1..(MaxTrips + 1) :
         GenerateStart(p, cred, trip_id)
    \/ \E cred \in Creds, trip_id \in 1..(MaxTrips + 1) :
         GetItinerary(cred, trip_id)
    \/ \E d \in TickSteps : Tick(d)

Next ==
    \/ ServerStep
    \/ \E p \in Procs, outcome \in LlmOutcomes : GenerateFinish(p, outcome)

Spec == Init /\ [][Next]_vars

---------------------------------------------------------------------------
(* The response parser on its own: lines 269-279 applied to one text *)

\* {}
DocEmpty == <<"{", "}">>
\* {"d":[1,1]}
DocTwo == <<"{", QUOTE, "d", QUOTE, ":", "[", "1", ",", "1", "]", "}">>
\* {"d":{"n":"so"}}
DocNested == <<"{", QUOTE, "d", QUOTE, ":", "{", QUOTE, "n", QUOTE, ":",
               QUOTE, "s", "o", QUOTE, "}", "}">>
\* "json"
DocString == <<QUOTE, "j", "s", "o", "n", QUOTE>>
\* 11
DocNumber == <<"1", "1">>

\* JSON documents
Docs == {DocDays, DocList, DocEmpty, DocTwo, DocNested, DocString, DocNumber}

\* texts that are no JSON documents
NotJson == {<<"n", "o">>, <<"{", QUOTE, "d", QUOTE, "}">>, <<"[", "1", ",", "]">>,
            <<"1", " ", "1">>, <<>>}

\* the language tags after an opening fence: none, json, js
Tags == {<<>>, TagJson, <<"j", "s">>}
Leads == {<<>>, <<" ">>}
Seps == {<<>>, <<"\n">>}

ParserInputs ==
    Docs \cup NotJson
    \cup {Fenced(lead, tag, sep, d) :
            lead \in Leads, tag \in Tags, sep \in Seps, d \in Docs \cup NotJson}

ParseInit ==
    /\ now = 0
    /\ users = <<>>
    /\ trips = <<>>
    /\ itineraries = <<>>
    /\ issued = {}
    /\ pc = [p \in Procs |-> Idle]
    /\ \E text \in ParserInputs :
         last = [seq |-> 0, op |-> "response", cred |-> NoCred, status |-> 0,
                 detail |-> "", email |-> "", trip_id |-> 0, token |-> NoCred,
                 body |-> <<>>,
                 llm |-> [called |-> TRUE, raised |-> FALSE, text |-> text],
                 parsed |-> NoParse]

ParseApply ==
    /\ last.op = "response"
    /\ last' = [last EXCEPT !.op = "parsed",
                            !.parsed = ParseResponse(last.llm.text)]
    /\ UNCHANGED <<now, users, trips, itineraries, issued, pc>>

ParseNext == ParseApply

SpecParse == ParseInit /\ [][ParseNext]_vars

---------------------------------------------------------------------------
(* Properties *)

Registered(email) == \E i \in DOMAIN users : users[i].email = email

\* a request was answered in this step
Responded == last'.seq # last.seq

ProtectedOps == {"me", "create_trip", "get_trips", "generate", "get_itinerary"}

\* C1: once an email is in the user store, a Register request for it that
\* arrives afterwards is answered 400 "Email already registered" in its
\* first step, with no user record added and no token issued.
C1_LaterRegisterIsDuplicateEmail ==
    [][\A p \in Procs, email \in Emails, name \in Names, password \in Passwords :
         (Registered(email) /\ RegisterFind(p, email, name, password))
           => /\ Responded
              /\ last'.op = "register"
              /\ last'.email = email
              /\ last'.status = 400
              /\ last'.detail = "Email already registered"
              /\ last'.token = NoCred
              /\ users' = users
              /\ issued' = issued
              /\ pc' = pc]_vars

C1_Witness ==
    /\ last.op = "register"
    /\ last.status = 400
    /\ Registered(last.email)

\* C2: no two user records share an email, whatever the interleaving of the
\* Register requests.
C2_NoTwoUsersShareEmail ==
    \A i, j \in DOMAIN users : users[i].email = users[j].email => i = j

\* C3: a token of Register or Login carries exp = issuance +
\* JWT_EXPIRATION_HOURS; a request validated before exp passes the token
\* check, a request validated after exp is answered 401 "Token has expired".
C3_TokenValidUntilExpiry ==
    [][/\ (Responded /\ last'.token.kind = "jwt")
            => /\ last'.op \in {"register", "login"}
               /\ last'.token.exp = now + JWT_EXPIRATION_HOURS
       /\ \A cred \in issued :
            /\ (now < cred.exp /\ GetMe(cred))
                 => /\ last'.status = 200
                    /\ last'.body[1].id = cred.user_id
            /\ (now > cred.exp /\ (GetMe(cred) \/ GetTrips(cred)
                                     \/ \E b \in TripInputs : CreateTrip(cred, b)
                                     \/ \E t \in 1..(MaxTrips + 1) :
                                          \/ GetItinerary(cred, t)
                                          \/ \E p \in Procs :
                                               GenerateStart(p, cred, t)))
                 => /\ Responded
                    /\ last'.status = 401
                    /\ last'.detail = "Token has expired"]_vars

C3_Witness ==
    /\ last.op = "me"
    /\ last.cred.kind = "jwt"
    /\ last.status = 401
    /\ last.detail = "Token has expired"
    /\ now > last.cred.exp

\* C4: a Login that fails, for an unknown email or for a wrong password, is
\* answered 401 "Invalid email or password" without token or body and
\* changes no store: the answer is the same in both cases.
C4_LoginFailuresAlike ==
    [][\A email \in Emails, password \in Passwords \cup WrongPasswords :
         (Login(email, password)
            /\ (~Registered(email) \/ password \in WrongPasswords))
           => /\ Responded
              /\ last'.op = "login"
              /\ last'.status = 401
              /\ last'.detail = "Invalid email or password"
              /\ last'.token = NoCred
              /\ last'.body = <<>>
              /\ UNCHANGED <<users, trips, itineraries, issued>>]_vars

C4_Witness ==
    /\ last.op = "login"
    /\ last.status = 401
    /\ Registered(last.email)

\* C5: a request to a bearer-protected route without Authorization header
\* or with a malformed token is answered 401, and nothing is read into a
\* response, written, or sent to the text generator.
C5_NoCredentialsIs401 ==
    [][(Responded /\ last'.op \in ProtectedOps
          /\ last'.cred.kind \in {"none", "malformed"})
         => /\ last'.status = 401
            /\ last'.body = <<>>
            /\ UNCHANGED <<users, trips, itineraries, issued, pc>>]_vars

C5_Witness ==
    /\ last.op \in ProtectedOps
    /\ last.cred.kind = "malformed"
    /\ last.status = 401

\* the trips of another user than the caller
OthersTrip(trip_id, user_id) ==
    \E i \in DOMAIN trips : trips[i].id = trip_id /\ trips[i].user_id # user_id

\* C6: GET /trips answers with trips of the caller only, and GET
\* /trips/{id}/itinerary for a trip of another user returns no itinerary:
\* 404 for a caller whose token is accepted.
C6_TripsAndItinerariesOwnerScoped ==
    [][/\ (Responded /\ last'.op = "get_trips" /\ last'.status = 200)
            => \A i \in DOMAIN last'.body :
                  last'.body[i].user_id = last'.cred.user_id
       /\ (Responded /\ last'.op = "get_itinerary" /\ last'.cred.kind = "jwt"
             /\ OthersTrip(last'.trip_id, last'.cred.user_id))
            => /\ last'.body = <<>>
               /\ last'.status # 200
               /\ now < last'.cred.exp => last'.status = 404]_vars

C6_Witness ==
    /\ last.op = "get_itinerary"
    /\ last.status = 404
    /\ OthersTrip(last.trip_id, last.cred.user_id)
    /\ \E i \in DOMAIN itineraries : itineraries[i].trip_id = last.trip_id

\* C7: when the text generator raises, or its text is no JSON both as it
\* is and after the fence clean-up, generate-itinerary answers 500 and the
\* itinerary store is unchanged; an itinerary is inserted only in a step
\* that answers generate-itinerary with 200.
C7_FailedGenerationPersistsNothing ==
    [][/\ (Responded /\ last'.op = "generate" /\ last'.llm.called
             /\ (\/ last'.llm.raised
                 \/ (~Loads(last'.llm.text).ok
                       /\ ~Loads(CleanResponse(last'.llm.text)).ok)))
            => /\ last'.status = 500
               /\ last'.detail = "Failed to generate itinerary"
               /\ itineraries' = itineraries
       /\ itineraries' # itineraries
            => /\ Responded
               /\ last'.op = "generate"
               /\ last'.status = 200
               /\ Len(itineraries') = Len(itineraries) + 1]_vars

C7_Witness ==
    /\ last.op = "generate"
    /\ last.status = 500
    /\ last.llm.called
    /\ ~last.llm.raised
    /\ ~last.parsed.ok

\* C8, as claimed: for every JSON document, in a fence with any language
\* tag the parser yields what it yields for the document alone.
C8_AnyFenceParsesAsDocument ==
    \A d \in Docs, lead \in Leads, tag \in Tags, sep \in Seps :
        (last.op = "parsed" /\ last.llm.text = Fenced(lead, tag, sep, d))
          => /\ last.parsed.ok
             /\ last.parsed.val = ParseResponse(d).val

\* C8, amended: for every JSON document, in a fence without language tag or
\* with the tag json the parser yields what it yields for the document
\* alone, and a text that is JSON as it stands is the result of the first
\* parse.
C8_JsonFenceParsesAsDocument ==
    /\ \A d \in Docs, lead \in Leads, tag \in {<<>>, TagJson}, sep \in Seps :
         (last.op = "parsed" /\ last.llm.text = Fenced(lead, tag, sep, d))
           => /\ last.parsed.ok
              /\ last.parsed.stage = 2
              /\ last.parsed.val = ParseResponse(d).val
    /\ \A d \in Docs :
         (last.op = "parsed" /\ last.llm.text = d)
           => /\ last.parsed.ok
              /\ last.parsed.stage = 1
              /\ last.parsed.val = Loads(d).val

C8_Witness ==
    /\ last.op = "parsed"
    /\ last.llm.text = Fenced(<<" ">>, TagJson, <<"\n">>, DocNested)
    /\ last.parsed.ok

\* the itinerary stored last for a trip and a user
MostRecent(trip_id, user_id) ==
    LET idx == {i \in DOMAIN itineraries :
                  /\ itineraries[i].trip_id = trip_id
                  /\ itineraries[i].user_id = user_id}
    IN  itineraries[CHOOSE i \in idx : \A j \in idx : j <= i]

\* C9: GET /trips/{id}/itinerary answers with the itinerary stored last
\* for the trip by the caller.
C9_FetchReturnsMostRecent ==
    [][(Responded /\ last'.op = "get_itinerary" /\ last'.status = 200)
         => last'.body = <<MostRecent(last'.trip_id, last'.cred.user_id)>>]_vars

\* C10: generate-itinerary with an accepted token for a trip id that no
\* trip of the caller has is answered 404 "Trip not found" at once: the text
\* generator is not called and no itinerary is inserted.
C10_UnownedTripIs404 ==
    [][\A p \in Procs, cred \in issued, trip_id \in 1..(MaxTrips + 1) :
         (/\ GenerateStart(p, cred, trip_id)
          /\ now < cred.exp
          /\ ~\E i \in DOMAIN trips :
                 trips[i].id = trip_id /\ trips[i].user_id = cred.user_id)
           => /\ Responded
              /\ last'.op = "generate"
              /\ last'.status = 404
              /\ last'.detail = "Trip not found"
              /\ ~last'.llm.called
              /\ pc' = pc
              /\ itineraries' = itineraries]_vars

C10_Witness ==
    /\ last.op = "generate"
    /\ last.status = 404
    /\ OthersTrip(last.trip_id, last.cred.user_id)

\* C11: every stored trip has the user_id of the caller that created it, a
\* positive number_of_days and its four enumerated fields inside their sets;
\* a create-trip request that breaks one of these is answered 422 and stores
\* nothing.
C11_StoredTripsAreValid ==
    /\ \A i \in DOMAIN trips :
         /\ \E j \in DOMAIN users : users[j].id = trips[i].user_id
         /\ trips[i].number_of_days > 0
         /\ trips[i].trip_type \in TripTypes
         /\ trips[i].trip_vibe \in TripVibes
         /\ trips[i].hectic_level \in HecticLevels
         /\ trips[i].places_preference \in PlacesPreferences
    /\ (last.op = "create_trip" /\ last.status = 200)
         => /\ last.body[1].user_id = last.cred.user_id
            /\ last.body[1].number_of_days > 0

\* C12: a generate-itinerary request that waits for the text generator can
\* end without the generator's answer: a step of the server other than the
\* return of chat.send_message (a time-out, answered as GenerationFailed)
\* completes it.
C12_PendingGenerationCanEnd ==
    \A p \in Procs :
        pc[p].at = "generate_llm"
          => ENABLED (ServerStep /\ pc'[p].at = "idle")

====
